---- MODULE Spec2Model ----
(***************************************************************************)
(* EthosLogAnalyzer: the ingestion pipeline load_log_file (empty-column    *)
(* removal, GPS split and projection, Date/Time/DateTime/ElapsedTime       *)
(* reconstruction, derived columns, column sort), its caller main and the  *)
(* exporter export_processed_log_file.                                     *)
(*                                                                         *)
(* Text is a sequence of one-character strings.  A cell of a DataFrame is  *)
(* a record [k, s, n, d]: k = "nan" (missing: NaN / None / NaT), "str"     *)
(* (text s), "num" (the float n/1000) or "ts" (a timestamp: day d since    *)
(* 1970-01-01 and n milliseconds into that day).  A DataFrame is           *)
(* [cols, data, n]: the column names in order, the cells of each column,   *)
(* and the length of the index.                                            *)
(***************************************************************************)
EXTENDS Integers, Sequences, FiniteSets, TLC

\* ------------------------------------------------------------------ bounds
MaxRows == 2
MaxRuns == 2
MaxProbe == 20

\* ------------------------------------------------------------------- cells
NaN == [k |-> "nan", s |-> <<>>, n |-> 0, d |-> 0]
Str(s) == [k |-> "str", s |-> s, n |-> 0, d |-> 0]
Num(n) == [k |-> "num", s |-> <<>>, n |-> n, d |-> 0]
Ts(d, n) == [k |-> "ts", s |-> <<>>, n |-> n, d |-> d]

IsNull(c) == c.k = "nan"

\* -------------------------------------------------------------- characters
Digits == <<"0", "1", "2", "3", "4", "5", "6", "7", "8", "9">>

IsDigit(c) == \E i \in 1..10 : Digits[i] = c

DigitVal(c) == (CHOOSE i \in 1..10 : Digits[i] = c) - 1

AllDigits(s) == \A i \in 1..Len(s) : IsDigit(s[i])

RECURSIVE ToNat(_)
ToNat(s) == IF s = <<>> THEN 0
            ELSE 10 * ToNat(SubSeq(s, 1, Len(s) - 1)) + DigitVal(s[Len(s)])

Pad2(n) == <<Digits[((n \div 10) % 10) + 1], Digits[(n % 10) + 1]>>

Pad3(n) == <<Digits[((n \div 100) % 10) + 1]>> \o Pad2(n)

Pad4(n) == <<Digits[((n \div 1000) % 10) + 1]>> \o Pad3(n)

\* s[from..] ; the empty text when from is past the end
Tail2(s, from) == IF from > Len(s) THEN <<>> ELSE SubSeq(s, from, Len(s))

\* ---------------------------------------------------- the Time pattern
\* re.match(r'^\d{1,2}:\d{2}:\d{2}\.\d+$', s) for a text s, with h hour digits
MatchesWithHour(s, h) ==
    /\ Len(s) >= h + 8
    /\ AllDigits(SubSeq(s, 1, h))
    /\ s[h + 1] = ":"
    /\ AllDigits(SubSeq(s, h + 2, h + 3))
    /\ s[h + 4] = ":"
    /\ AllDigits(SubSeq(s, h + 5, h + 6))
    /\ s[h + 7] = "."
    /\ AllDigits(SubSeq(s, h + 8, Len(s)))

TimePatternMatches(s) == MatchesWithHour(s, 1) \/ MatchesWithHour(s, 2)

\* ------------------------------------------------------------ calendar
IsLeap(y) == ((y % 4) = 0 /\ (y % 100) # 0) \/ (y % 400) = 0

DaysInMonth(y, m) ==
    IF m = 2 THEN (IF IsLeap(y) THEN 29 ELSE 28)
    ELSE IF m \in {4, 6, 9, 11} THEN 30 ELSE 31

\* days from 1970-01-01 to the civil date y-m-d (proleptic Gregorian)
DaysFromCivil(y, m, d) ==
    LET yy == IF m <= 2 THEN y - 1 ELSE y
        era == yy \div 400
        yoe == yy - era * 400
        mp == IF m > 2 THEN m - 3 ELSE m + 9
        doy == (153 * mp + 2) \div 5 + d - 1
        doe == yoe * 365 + yoe \div 4 - yoe \div 100 + doy
    IN era * 146097 + doe - 719468

\* datetime.strftime('%Y-%m-%d') of the date [y, m, d]
FormatDate(t) == Pad4(t.y) \o <<"-">> \o Pad2(t.m) \o <<"-">> \o Pad2(t.d)

\* (start_time + Timedelta(seconds=i)).strftime("%H:%M:%S.%f")[:-3], for
\* start_time = 12:00:00.0: the microsecond field is 000000, cut to 000
FormatSynthTime(i) ==
    LET secs == (12 * 3600 + i) % 86400
    IN Pad2(secs \div 3600) \o <<":">> \o Pad2((secs \div 60) % 60) \o <<":">>
       \o Pad2(secs % 60) \o <<".", "0", "0", "0">>

\* ---------------------------------------------------- pd.to_datetime
\* The date part "YYYY-MM-DD" of a text: days since the epoch, or -1
ParseDatePart(s) ==
    IF /\ Len(s) = 10
       /\ AllDigits(SubSeq(s, 1, 4)) /\ s[5] = "-"
       /\ AllDigits(SubSeq(s, 6, 7)) /\ s[8] = "-"
       /\ AllDigits(SubSeq(s, 9, 10))
    THEN LET y == ToNat(SubSeq(s, 1, 4))
             m == ToNat(SubSeq(s, 6, 7))
             d == ToNat(SubSeq(s, 9, 10))
         IN IF m \in 1..12 /\ d >= 1 /\ d <= DaysInMonth(y, m)
            THEN DaysFromCivil(y, m, d) ELSE -1
    ELSE -1

\* The fraction digits f as milliseconds (digits past the third are dropped)
FractionMs(f) ==
    LET d(i) == IF i <= Len(f) THEN DigitVal(f[i]) ELSE 0
    IN 100 * d(1) + 10 * d(2) + d(3)

\* The time part "H:MM:SS.f" or "HH:MM:SS.f": milliseconds of the day, or -1
ParseTimePart(s) ==
    IF ~TimePatternMatches(s) THEN -1
    ELSE LET h == IF MatchesWithHour(s, 2) THEN 2 ELSE 1
             hh == ToNat(SubSeq(s, 1, h))
             mm == ToNat(SubSeq(s, h + 2, h + 3))
             ss == ToNat(SubSeq(s, h + 5, h + 6))
         IN IF hh <= 23 /\ mm <= 59 /\ ss <= 59
            THEN ((hh * 60 + mm) * 60 + ss) * 1000 + FractionMs(Tail2(s, h + 8))
            ELSE -1

\* pd.to_datetime(text, errors='coerce') of one "<Date> <Time>" text:
\* a timestamp cell, or the missing cell (NaT) when the text does not parse
ToDatetime(s) ==
    IF Len(s) >= 12 /\ s[11] = " "
    THEN LET days == ParseDatePart(SubSeq(s, 1, 10))
             ms == ParseTimePart(Tail2(s, 12))
         IN IF days >= 0 /\ ms >= 0 THEN Ts(days, ms) ELSE NaN
    ELSE NaN

\* ------------------------------------------------------------- text
\* The ASCII characters from the space (code 32) to the underscore (95)
AsciiUpper ==
  <<
    " ", "!", "\"", "#", "$", "%", "&", "'", "(", ")", "*", "+",
    ",", "-", ".", "/", "0", "1", "2", "3", "4", "5", "6", "7",
    "8", "9", ":", ";", "<", "=", ">", "?", "@", "A", "B", "C",
    "D", "E", "F", "G", "H", "I", "J", "K", "L", "M", "N", "O",
    "P", "Q", "R", "S", "T", "U", "V", "W", "X", "Y", "Z", "[",
    "\\", "]", "^", "_" >>

\* The ASCII lower-case letters (codes 97 to 122)
AsciiLower ==
  <<
    "a", "b", "c", "d", "e", "f", "g", "h", "i", "j", "k", "l",
    "m", "n", "o", "p", "q", "r", "s", "t", "u", "v", "w", "x",
    "y", "z" >>

\* ord(c)
Ord(c) ==
    IF \E i \in 1..Len(AsciiUpper) : AsciiUpper[i] = c
    THEN (CHOOSE i \in 1..Len(AsciiUpper) : AsciiUpper[i] = c) + 31
    ELSE (CHOOSE i \in 1..Len(AsciiLower) : AsciiLower[i] = c) + 96

\* a < b on two Python texts: ordinal, character by character
RECURSIVE TextLess(_, _)
TextLess(a, b) ==
    IF b = <<>> THEN FALSE
    ELSE IF a = <<>> THEN TRUE
    ELSE IF a[1] # b[1] THEN Ord(a[1]) < Ord(b[1])
    ELSE TextLess(Tail(a), Tail(b))

\* str.split(' '): the tokens between single spaces, empty tokens kept
RECURSIVE SplitSpace(_)
SplitSpace(s) ==
    IF \A i \in 1..Len(s) : s[i] # " " THEN <<s>>
    ELSE LET p == CHOOSE i \in 1..Len(s) :
                     s[i] = " " /\ \A j \in 1..(i - 1) : s[j] # " "
         IN <<SubSeq(s, 1, p - 1)>> \o SplitSpace(Tail2(s, p + 1))

\* str.strip() of the spaces
RECURSIVE Strip(_)
Strip(s) ==
    IF s = <<>> THEN s
    ELSE IF s[1] = " " THEN Strip(Tail(s))
    ELSE IF s[Len(s)] = " " THEN Strip(SubSeq(s, 1, Len(s) - 1))
    ELSE s

\* Whether float(s) accepts the text: [sign] digits [. digits] between
\* optional spaces (exponents, "inf" and "nan" are left out of the model)
IsFloatText(s) ==
    LET t == Strip(s)
        u == IF t # <<>> /\ t[1] \in {"-", "+"} THEN Tail(t) ELSE t
        dots == {i \in 1..Len(u) : u[i] = "."}
    IN /\ u # <<>>
       /\ \A i \in 1..Len(u) : IsDigit(u[i]) \/ u[i] = "."
       /\ Cardinality(dots) <= 1
       /\ \E i \in 1..Len(u) : IsDigit(u[i])

\* float(s) in thousandths (digits past the third decimal are dropped)
ParseFloat(s) ==
    LET t == Strip(s)
        neg == t[1] = "-"
        u == IF t[1] \in {"-", "+"} THEN Tail(t) ELSE t
        p == IF \E i \in 1..Len(u) : u[i] = "."
             THEN CHOOSE i \in 1..Len(u) : u[i] = "." ELSE Len(u) + 1
        whole == ToNat(SubSeq(u, 1, p - 1))
        mag == whole * 1000 + FractionMs(Tail2(u, p + 1))
    IN IF neg THEN 0 - mag ELSE mag

RECURSIVE NatText(_)
NatText(n) == IF n < 10 THEN <<Digits[n + 1]>>
              ELSE NatText(n \div 10) \o <<Digits[(n % 10) + 1]>>

\* repr(x) of the float x = n/1000: shortest form with at least one decimal
FormatFloat(n) ==
    LET mag == IF n < 0 THEN 0 - n ELSE n
        f == mag % 1000
        frac == IF f = 0 THEN <<"0">>
                ELSE IF (f % 100) = 0 THEN <<Digits[(f \div 100) + 1]>>
                ELSE IF (f % 10) = 0 THEN Pad2(f \div 10)
                ELSE Pad3(f)
    IN (IF n < 0 THEN <<"-">> ELSE <<>>) \o NatText(mag \div 1000) \o <<".">> \o frac

\* str(Timestamp): "YYYY-MM-DD HH:MM:SS" and ".fff000" when there is a fraction
RECURSIVE CivilFromDays(_, _)
CivilFromDays(days, y) ==
    LET len == IF IsLeap(y) THEN 366 ELSE 365
    IN IF days >= len THEN CivilFromDays(days - len, y + 1)
       ELSE LET m == CHOOSE k \in 1..12 :
                         /\ DaysFromCivil(y, k, 1) - DaysFromCivil(y, 1, 1) <= days
                         /\ k = 12 \/ DaysFromCivil(y, k + 1, 1) - DaysFromCivil(y, 1, 1) > days
            IN [y |-> y, m |-> m,
                d |-> days - (DaysFromCivil(y, m, 1) - DaysFromCivil(y, 1, 1)) + 1]

FormatTimestamp(d, ms) ==
    LET secs == ms \div 1000
        f == ms % 1000
    IN FormatDate(CivilFromDays(d, 1970)) \o <<" ">>
       \o Pad2(secs \div 3600) \o <<":">> \o Pad2((secs \div 60) % 60) \o <<":">>
       \o Pad2(secs % 60)
       \o (IF f = 0 THEN <<>> ELSE <<".">> \o Pad3(f) \o <<"0", "0", "0">>)

\* Series.astype(str) of one cell
AsStr(c) ==
    IF c.k = "str" THEN c.s
    ELSE IF c.k = "num" THEN FormatFloat(c.n)
    ELSE IF c.k = "ts" THEN FormatTimestamp(c.d, c.n)
    ELSE <<"n", "a", "n">>

\* ------------------------------------------------------- column names
\* The characters of a column name
Chars(name) ==
    CASE name = "Alt(m)" -> <<"A", "l", "t", "(", "m", ")">>
      [] name = "accX(g)" -> <<"a", "c", "c", "X", "(", "g", ")">>
      [] name = "Current(A)" -> <<"C", "u", "r", "r", "e", "n", "t", "(", "A", ")">>
      [] name = "Date" -> <<"D", "a", "t", "e">>
      [] name = "DateTime" -> <<"D", "a", "t", "e", "T", "i", "m", "e">>
      [] name = "ElapsedTime" -> <<"E", "l", "a", "p", "s", "e", "d", "T", "i", "m", "e">>
      [] name = "GPS" -> <<"G", "P", "S">>
      [] name = "GPS.Latitude" -> <<"G", "P", "S", ".", "L", "a", "t", "i", "t", "u", "d", "e">>
      [] name = "GPS.LatitudeFloat" -> <<"G", "P", "S", ".", "L", "a", "t", "i", "t", "u", "d", "e", "F", "l", "o", "a", "t">>
      [] name = "GPS.Longitude" -> <<"G", "P", "S", ".", "L", "o", "n", "g", "i", "t", "u", "d", "e">>
      [] name = "GPS.LongitudeFloat" -> <<"G", "P", "S", ".", "L", "o", "n", "g", "i", "t", "u", "d", "e", "F", "l", "o", "a", "t">>
      [] name = "GPS.X(m)" -> <<"G", "P", "S", ".", "X", "(", "m", ")">>
      [] name = "GPS.Y(m)" -> <<"G", "P", "S", ".", "Y", "(", "m", ")">>
      [] name = "LiPo Total (V)" -> <<"L", "i", "P", "o", " ", "T", "o", "t", "a", "l", " ", "(", "V", ")">>
      [] name = "LiPo1(V)" -> <<"L", "i", "P", "o", "1", "(", "V", ")">>
      [] name = "LiPo2(V)" -> <<"L", "i", "P", "o", "2", "(", "V", ")">>
      [] name = "LiPo2(V)raw" -> <<"L", "i", "P", "o", "2", "(", "V", ")", "r", "a", "w">>
      [] name = "Power (W)" -> <<"P", "o", "w", "e", "r", " ", "(", "W", ")">>
      [] name = "RSSI(dB)" -> <<"R", "S", "S", "I", "(", "d", "B", ")">>
      [] name = "Time" -> <<"T", "i", "m", "e">>
      [] name = "VFAS(V)" -> <<"V", "F", "A", "S", "(", "V", ")">>

\* re.match(r"LiPo\d+\(V\)", col): the pattern matches a prefix of the name
IsLipoColumn(name) ==
    LET s == Chars(name)
    IN /\ Len(s) >= 8
       /\ SubSeq(s, 1, 4) = <<"L", "i", "P", "o">>
       /\ \E e \in 5..(Len(s) - 3) :
             /\ AllDigits(SubSeq(s, 5, e))
             /\ SubSeq(s, e + 1, e + 3) = <<"(", "V", ")">>

\* ---------------------------------------------------------- DataFrame
Range(q) == {q[i] : i \in 1..Len(q)}

HasCol(df, c) == c \in Range(df.cols)

\* df[c] = cells: replaces the column in place, or appends a new last column
SetCol(df, c, cells) ==
    [cols |-> IF HasCol(df, c) THEN df.cols ELSE Append(df.cols, c),
     data |-> [x \in Range(df.cols) \cup {c} |->
                  IF x = c THEN cells ELSE df.data[x]],
     n |-> df.n]

\* df[names]: the listed columns, in the listed order
SelectCols(df, names) ==
    [cols |-> names, data |-> [x \in Range(names) |-> df.data[x]], n |-> df.n]

\* df.drop(columns=gone)
DropCols(df, gone) ==
    SelectCols(df, SelectSeq(df.cols, LAMBDA c : c \notin gone))

\* A column holding the same cell on every row
Broadcast(df, cell) == [i \in 1..df.n |-> cell]

AllNull(cells) == \A i \in 1..Len(cells) : IsNull(cells[i])

\* A run of load_log_file in progress: the DataFrame, the status notes
\* (one per line of import_status) and the exception raised, "" for none
Raise(r, e) == [r EXCEPT !.exc = e]

Note(r, line) == [r EXCEPT !.status = Append(@, line)]

WithDf(r, df) == [r EXCEPT !.df = df]

Contains(status, line) == \E i \in 1..Len(status) : status[i] = line

\* ------------------------------------------- load_log_file, stage by stage
\* DropEmptyColumns removing every column that has a gap (how='any')
DropColumnsWithGaps(df) ==
    SelectCols(df, SelectSeq(df.cols,
                   LAMBDA c : \A i \in 1..df.n : ~IsNull(df.data[c][i])))

\* DropEmptyColumns keeping every column of the header
KeepEmptyColumns(df) == df

\* df.dropna(axis=1, how='all')
DropEmptyColumns(df) ==
    SelectCols(df, SelectSeq(df.cols, LAMBDA c : ~AllNull(df.data[c])))

\* str.split(' ', expand=True): cell (i, j) of gps_split, None past the end
SplitCell(cell, j) ==
    IF IsNull(cell) \/ j > Len(SplitSpace(cell.s)) THEN NaN
    ELSE Str(SplitSpace(cell.s)[j])

\* Whether gps_split has a column 1
HasSecondToken(cells) ==
    \E i \in 1..Len(cells) : ~IsNull(cells[i]) /\ Len(SplitSpace(cells[i].s)) >= 2

\* Lines 58-61 with the columns latCol and lonCol of gps_split (1 and 2 here
\* are the code's 0 and 1)
SplitInto(r, latCol, lonCol) ==
    LET col == r.df.data["GPS"]
        lat == [i \in 1..r.df.n |-> SplitCell(col[i], latCol)]
        lon == [i \in 1..r.df.n |-> SplitCell(col[i], lonCol)]
    IN IF \E i \in 1..r.df.n : col[i].k \notin {"str", "nan"}
       THEN Raise(r, "AttributeError")
       ELSE IF ~HasSecondToken(col) THEN Raise(r, "KeyError")
       ELSE WithDf(r, DropCols(SetCol(SetCol(r.df, "GPS.Latitude", lat),
                                      "GPS.Longitude", lon), {"GPS"}))

\* GpsSplit with the two tokens taken the other way round
GpsSplitSwapped(r) ==
    IF r.exc # "" \/ ~HasCol(r.df, "GPS") THEN r ELSE SplitInto(r, 2, 1)

\* if 'GPS' in df.columns: split on ' ', keep tokens 0 and 1, drop GPS
GpsSplit(r) ==
    IF r.exc # "" \/ ~HasCol(r.df, "GPS") THEN r ELSE SplitInto(r, 1, 2)

\* Series.astype(float) of one cell; CanFloat tells whether it raises
CanFloat(c) == c.k = "str" => IsFloatText(c.s)

AsFloat(c) == IF c.k = "str" THEN Num(ParseFloat(c.s)) ELSE c

RECURSIVE SumCells(_)
SumCells(cells) ==
    IF cells = <<>> THEN 0
    ELSE (IF cells[1].k = "num" THEN cells[1].n ELSE 0) + SumCells(Tail(cells))

CountCells(cells) == Cardinality({i \in 1..Len(cells) : cells[i].k = "num"})

\* ProjOffset measured from the origin instead of the centre
ProjOffsetFromOrigin(cell, sum, cnt) ==
    IF cell.k # "num" THEN NaN ELSE Num(cell.n * 111)

\* proj(lon, lat) of one row about the centre (sum/cnt of each column): the
\* offsets in metres, as a first-order (111 m per 0.001 degree) stand-in
\* for the azimuthal equidistant projection; a row with a missing
\* coordinate has no projected value
ProjOffset(cell, sum, cnt) ==
    IF cell.k # "num" THEN NaN
    ELSE Num(((cell.n * cnt - sum) * 111000) \div cnt)

ProjX(lonCell, latCell, lonSum, lonCnt) ==
    IF latCell.k # "num" THEN NaN ELSE ProjOffset(lonCell, lonSum, lonCnt)

ProjY(lonCell, latCell, latSum, latCnt) ==
    IF lonCell.k # "num" THEN NaN ELSE ProjOffset(latCell, latSum, latCnt)

\* The projection gate: both GPS.Longitude and GPS.Latitude are columns
HasGps(df) == HasCol(df, "GPS.Longitude") /\ HasCol(df, "GPS.Latitude")

\* A column with each missing number replaced by the first number it has
FillMissing(cells) ==
    IF \A i \in 1..Len(cells) : cells[i].k # "num" THEN cells
    ELSE LET f == CHOOSE i \in 1..Len(cells) :
                     cells[i].k = "num" /\ \A j \in 1..(i - 1) : cells[j].k # "num"
         IN [i \in 1..Len(cells) |-> IF cells[i].k = "num" THEN cells[i] ELSE cells[f]]

\* ProjectColumns with the missing coordinates filled in before the means
\* are taken, instead of left out of them
ProjectColumnsFilled(r) ==
    LET lonT == r.df.data["GPS.Longitude"]
        latT == r.df.data["GPS.Latitude"]
        lonF == FillMissing([i \in 1..r.df.n |-> AsFloat(lonT[i])])
        latF == FillMissing([i \in 1..r.df.n |-> AsFloat(latT[i])])
        x == [i \in 1..r.df.n |->
                 ProjX(lonF[i], latF[i], SumCells(lonF), CountCells(lonF))]
        y == [i \in 1..r.df.n |->
                 ProjY(lonF[i], latF[i], SumCells(latF), CountCells(latF))]
        withFloat == SetCol(SetCol(r.df, "GPS.LongitudeFloat", lonF),
                            "GPS.LatitudeFloat", latF)
        withXY == SetCol(SetCol(withFloat, "GPS.X(m)", x), "GPS.Y(m)", y)
    IN IF \E i \in 1..r.df.n : ~CanFloat(lonT[i]) \/ ~CanFloat(latT[i])
       THEN Raise(r, "ValueError")
       ELSE Note(WithDf(r, DropCols(withXY, {"GPS.LatitudeFloat",
                                             "GPS.LongitudeFloat"})),
                 "Contains GPS data.")

\* ProjectColumns leaving the two float columns in the table
ProjectColumnsKeepFloat(r) ==
    LET lonT == r.df.data["GPS.Longitude"]
        latT == r.df.data["GPS.Latitude"]
        lonF == [i \in 1..r.df.n |-> AsFloat(lonT[i])]
        latF == [i \in 1..r.df.n |-> AsFloat(latT[i])]
        x == [i \in 1..r.df.n |->
                 ProjX(lonF[i], latF[i], SumCells(lonF), CountCells(lonF))]
        y == [i \in 1..r.df.n |->
                 ProjY(lonF[i], latF[i], SumCells(latF), CountCells(latF))]
        withFloat == SetCol(SetCol(r.df, "GPS.LongitudeFloat", lonF),
                            "GPS.LatitudeFloat", latF)
        withXY == SetCol(SetCol(withFloat, "GPS.X(m)", x), "GPS.Y(m)", y)
    IN IF \E i \in 1..r.df.n : ~CanFloat(lonT[i]) \/ ~CanFloat(latT[i])
       THEN Raise(r, "ValueError")
       ELSE Note(WithDf(r, withXY), "Contains GPS data.")

\* Lines 65-77: the float columns, the centre, GPS.X(m) and GPS.Y(m), the
\* drop of the float columns and the note
ProjectColumns(r) ==
    LET lonT == r.df.data["GPS.Longitude"]
        latT == r.df.data["GPS.Latitude"]
        lonF == [i \in 1..r.df.n |-> AsFloat(lonT[i])]
        latF == [i \in 1..r.df.n |-> AsFloat(latT[i])]
        x == [i \in 1..r.df.n |->
                 ProjX(lonF[i], latF[i], SumCells(lonF), CountCells(lonF))]
        y == [i \in 1..r.df.n |->
                 ProjY(lonF[i], latF[i], SumCells(latF), CountCells(latF))]
        withFloat == SetCol(SetCol(r.df, "GPS.LongitudeFloat", lonF),
                            "GPS.LatitudeFloat", latF)
        withXY == SetCol(SetCol(withFloat, "GPS.X(m)", x), "GPS.Y(m)", y)
    IN IF \E i \in 1..r.df.n : ~CanFloat(lonT[i]) \/ ~CanFloat(latT[i])
       THEN Raise(r, "ValueError")
       ELSE Note(WithDf(r, DropCols(withXY, {"GPS.LatitudeFloat",
                                             "GPS.LongitudeFloat"})),
                 "Contains GPS data.")

\* GpsProject without the note of the else branch
GpsProjectSilent(r) ==
    IF r.exc # "" \/ ~HasGps(r.df) THEN r ELSE ProjectColumns(r)

\* X/Y excursions in metres from the centre GPS point, and the GPS note
GpsProject(r) ==
    IF r.exc # "" THEN r
    ELSE IF ~HasGps(r.df) THEN Note(r, "No GPS data found.")
    ELSE ProjectColumns(r)

\* The Time branch of the reconstruction (DateTime absent)
TimePrefix == <<"1", "2", ":">>

\* PrefixTime deciding row by row
PrefixFailingRows(cells) ==
    [i \in 1..Len(cells) |->
        IF TimePatternMatches(cells[i].s) THEN cells[i]
        ELSE Str(TimePrefix \o AsStr(cells[i]))]

\* '12:' + df['Time'].astype(str), for every row
PrefixTime(cells) == [i \in 1..Len(cells) |-> Str(TimePrefix \o AsStr(cells[i]))]

\* The decision of line 94, taken on df['Time'].iloc[0]
NeedsPrefix(cells) == ~TimePatternMatches(cells[1].s)

\* The generated Time column: 12:00:00.000 plus one second per row
SynthTime(df) == [i \in 1..df.n |-> Str(FormatSynthTime(i - 1))]

FixTime(r) ==
    IF HasCol(r.df, "Time")
    THEN LET col == r.df.data["Time"]
         IN IF r.df.n = 0 THEN Raise(r, "IndexError")
            ELSE IF col[1].k # "str" THEN Raise(r, "TypeError")
            ELSE IF NeedsPrefix(col)
                 THEN WithDf(r, SetCol(r.df, "Time", PrefixTime(col)))
                 ELSE r
    ELSE Note(WithDf(r, SetCol(r.df, "Time", SynthTime(r.df))),
              "No time data found.")

\* FixDate without its note
FixDateNoNote(r, now) ==
    IF r.exc # "" \/ HasCol(r.df, "Date") THEN r
    ELSE WithDf(r, SetCol(r.df, "Date", Broadcast(r.df, Str(FormatDate(now)))))

\* The Date branch: the current date on every row when Date is absent
FixDate(r, now) ==
    IF r.exc # "" \/ HasCol(r.df, "Date") THEN r
    ELSE Note(WithDf(r, SetCol(r.df, "Date",
                               Broadcast(r.df, Str(FormatDate(now))))),
              "No date data found.")

\* pd.to_datetime(Date.astype(str) + ' ' + Time.astype(str), errors='coerce')
CombineDateTime(df) ==
    [i \in 1..df.n |->
        ToDatetime(AsStr(df.data["Date"][i]) \o <<" ">> \o AsStr(df.data["Time"][i]))]

\* ElapsedCell from the times of day alone
ElapsedCellSameDay(dt, first) ==
    IF IsNull(dt) \/ IsNull(first) THEN NaN ELSE Num(dt.n - first.n)

\* (dt - first).dt.total_seconds() of one row, in thousandths of a second
ElapsedCell(dt, first) ==
    IF IsNull(dt) \/ IsNull(first) THEN NaN
    ELSE Num((dt.d - first.d) * 86400000 + (dt.n - first.n))

\* ElapsedTimeOf with the missing rows filled with zero
ElapsedTimeZeroFilled(dts) ==
    [i \in 1..Len(dts) |->
        IF IsNull(dts[i]) THEN Num(0) ELSE ElapsedCell(dts[i], dts[1])]

\* The ElapsedTime column computed from the DateTime column
ElapsedTimeOf(dts) ==
    IF ~AllNull(dts)
    THEN [i \in 1..Len(dts) |-> ElapsedCell(dts[i], dts[1])]
    ELSE [i \in 1..Len(dts) |-> NaN]

MakeDateTime(r) ==
    IF r.exc # "" THEN r
    ELSE LET dts == CombineDateTime(r.df)
         IN WithDf(r, SetCol(SetCol(r.df, "DateTime", dts),
                             "ElapsedTime", ElapsedTimeOf(dts)))

\* TimeReconstruct without the test for an existing DateTime column
TimeReconstructAlways(r, now) ==
    IF r.exc # "" THEN r ELSE MakeDateTime(FixDate(FixTime(r), now))

\* if not 'DateTime' in df.columns: ... (the whole time reconstruction)
TimeReconstruct(r, now) ==
    IF r.exc # "" \/ HasCol(r.df, "DateTime") THEN r
    ELSE MakeDateTime(FixDate(FixTime(r), now))

\* PowerCell with a missing operand taken as zero
PowerCellZeroFilled(v, a) ==
    Num(((IF IsNull(v) THEN 0 ELSE v.n) * (IF IsNull(a) THEN 0 ELSE a.n)) \div 1000)

\* df['VFAS(V)'] * df['Current(A)'] on one row
PowerCell(v, a) ==
    IF IsNull(v) \/ IsNull(a) THEN NaN ELSE Num((v.n * a.n) \div 1000)

PowerStage(r) ==
    IF r.exc # "" \/ ~(HasCol(r.df, "VFAS(V)") /\ HasCol(r.df, "Current(A)"))
    THEN r
    ELSE LET v == r.df.data["VFAS(V)"]
             a == r.df.data["Current(A)"]
         IN IF \E i \in 1..r.df.n : v[i].k = "str" \/ a[i].k = "str"
            THEN Raise(r, "TypeError")
            ELSE Note(WithDf(r, SetCol(r.df, "Power (W)",
                         [i \in 1..r.df.n |-> PowerCell(v[i], a[i])])),
                      "Generated 'Power (W)' data.")

\* [col for col in df.columns if re.match(r"LiPo\d+\(V\)", col)]
LipoCols(df) == SelectSeq(df.cols, IsLipoColumn)

\* df[lipo_cols].sum(axis=1) on one row: missing cells are skipped
LipoSum(df, names, i) ==
    SumCells([j \in 1..Len(names) |-> df.data[names[j]][i]])

LipoStage(r) ==
    IF r.exc # "" \/ LipoCols(r.df) = <<>> THEN r
    ELSE LET names == LipoCols(r.df)
         IN IF \E j \in 1..Len(names) : \E i \in 1..r.df.n :
                   r.df.data[names[j]][i].k = "str"
            THEN Raise(r, "TypeError")
            ELSE Note(WithDf(r, SetCol(r.df, "LiPo Total (V)",
                         [i \in 1..r.df.n |-> Num(LipoSum(r.df, names, i))])),
                      "Generated 'LiPo Total (V)' data.")

\* sorted(df.columns): ordinal order of the names
RECURSIVE SortedNames(_)
SortedNames(names) ==
    IF names = {} THEN <<>>
    ELSE LET least == CHOOSE a \in names :
                         \A b \in names \ {a} : TextLess(Chars(a), Chars(b))
         IN <<least>> \o SortedNames(names \ {least})

\* SortColumns leaving the columns in the order they were added
SortColumnsSkipped(r) == r

SortColumns(r) ==
    IF r.exc # "" THEN r
    ELSE WithDf(r, SelectCols(r.df, SortedNames(Range(r.df.cols))))

\* load_log_file() when the dialog returned filename, the file holds the
\* table csv and the clock reads now: [df, status, exc]; with no file
\* selected there is no table and no status, only the exception
NoTable == [cols |-> <<>>, data |-> <<>>, n |-> 0]

\* load_log_file going on without a file, on an empty table
LoadWithoutFileCheck(filename, csv, now) ==
    LET r0 == [df |-> DropEmptyColumns(IF filename = "" THEN NoTable ELSE csv),
               status |-> <<>>, exc |-> ""]
    IN SortColumns(LipoStage(PowerStage(
           TimeReconstruct(GpsProject(GpsSplit(r0)), now))))

load_log_file(filename, csv, now) ==
    IF filename = ""
    THEN [df |-> NoTable, status |-> <<>>, exc |-> "FileNotFoundError"]
    ELSE LET r0 == [df |-> DropEmptyColumns(csv), status |-> <<>>, exc |-> ""]
         IN SortColumns(LipoStage(PowerStage(
                TimeReconstruct(GpsProject(GpsSplit(r0)), now))))

\* ------------------------------------------------------- CSV files
\* A file is a table of fields: text, or the empty field (the missing cell)
\* read_csv takes a column as numeric when every non-empty field is a number
IsCsvNumber(s) == IsFloatText(s) /\ \A i \in 1..Len(s) : s[i] # " "

IsNumericColumn(cells) ==
    \A i \in 1..Len(cells) : IsNull(cells[i]) \/ IsCsvNumber(cells[i].s)

\* pd.read_csv(filename)
ReadCsv(file) ==
    [cols |-> file.cols,
     data |-> [c \in Range(file.cols) |->
                 IF IsNumericColumn(file.data[c])
                 THEN [i \in 1..file.n |->
                          IF IsNull(file.data[c][i]) THEN NaN
                          ELSE Num(ParseFloat(file.data[c][i].s))]
                 ELSE file.data[c]],
     n |-> file.n]

\* to_csv of one timestamp: the fraction is written in milliseconds on
\* every row of a column in which some row has one, and on no row otherwise
FormatCsvTimestamp(d, ms, showMs) ==
    LET secs == ms \div 1000
    IN FormatDate(CivilFromDays(d, 1970)) \o <<" ">>
       \o Pad2(secs \div 3600) \o <<":">> \o Pad2((secs \div 60) % 60) \o <<":">>
       \o Pad2(secs % 60)
       \o (IF showMs THEN <<".">> \o Pad3(ms % 1000) ELSE <<>>)

CsvField(cells, i) ==
    LET showMs == \E k \in 1..Len(cells) :
                      cells[k].k = "ts" /\ (cells[k].n % 1000) # 0
    IN IF IsNull(cells[i]) THEN NaN
       ELSE IF cells[i].k = "ts"
            THEN Str(FormatCsvTimestamp(cells[i].d, cells[i].n, showMs))
            ELSE Str(AsStr(cells[i]))

\* df.to_csv(save_filename, index=False): a missing cell is an empty field
ToCsv(df) ==
    [cols |-> df.cols,
     data |-> [c \in Range(df.cols) |->
                 [i \in 1..df.n |-> CsvField(df.data[c], i)]],
     n |-> df.n]

\* ------------------------------------------------------------ the program
VARIABLES
    disk,           \* the CSV files that exist: file name -> table of fields
    pc,             \* "start", "window" (mainloop), "crashed" or "exited"
    raw,            \* what pd.read_csv returned in this run
    df,             \* main's df
    filename,       \* main's filename
    import_status,  \* main's import_status, one note per line
    buttons,        \* has_gps and has_gps_with_altitude of the window
    exc,            \* the exception that ended the run, "" for none
    runs,           \* how many times the program has been started
    row             \* one row of a log without Date, Time and DateTime:
                    \* its index i and, once reconstructed, its cells

vars == <<disk, pc, raw, df, filename, import_status, buttons, exc, runs, row>>

LogFile == "log.csv"

\* initialfile of the save dialog: processed_<basename>
ProcessedFile == "processed_log.csv"

\* The dates datetime.now() may read
Clock == {[y |-> 2024, m |-> 3, d |-> 1], [y |-> 2025, m |-> 12, d |-> 31]}

NoRow == [i |-> 0, done |-> FALSE, Time |-> NaN, Date |-> NaN,
          DateTime |-> NaN, ElapsedTime |-> NaN]

NoButtons == [has_gps |-> FALSE, has_gps_with_altitude |-> FALSE]

\* main(): load_log_file(), then the window with its buttons; fn is what
\* the open dialog returns and t what datetime.now() reads
main(fn, t) ==
    /\ pc = "start"
    /\ LET csv == IF fn = "" THEN NoTable ELSE ReadCsv(disk[fn])
           r == load_log_file(fn, csv, t)
       IN /\ raw' = csv
          /\ exc' = r.exc
          /\ IF r.exc = ""
             THEN /\ pc' = "window"
                  /\ df' = r.df
                  /\ filename' = fn
                  /\ import_status' = r.status
                  /\ buttons' =
                       [has_gps |-> {"GPS.Latitude", "GPS.Longitude"}
                                       \subseteq Range(r.df.cols),
                        has_gps_with_altitude |->
                            {"GPS.Latitude", "GPS.Longitude", "GPS alt(m)"}
                                \subseteq Range(r.df.cols)]
             ELSE /\ pc' = "crashed"
                  /\ UNCHANGED <<df, filename, import_status, buttons>>
    /\ UNCHANGED <<disk, runs, row>>

\* export_processed_log_file(df, filename); save = "" when the dialog is
\* cancelled
export_processed_log_file(save) ==
    /\ pc = "window"
    /\ disk' = IF save = "" THEN disk
               ELSE [f \in DOMAIN disk \cup {save} |->
                        IF f = save THEN ToCsv(df) ELSE disk[f]]
    /\ UNCHANGED <<pc, raw, df, filename, import_status, buttons, exc, runs, row>>

\* The Exit button: root.quit ends mainloop and main returns
Exit ==
    /\ pc = "window"
    /\ pc' = "exited"
    /\ UNCHANGED <<disk, raw, df, filename, import_status, buttons, exc, runs, row>>

\* The program is started again
Launch ==
    /\ pc \in {"exited", "crashed"}
    /\ runs < MaxRuns
    /\ pc' = "start"
    /\ runs' = runs + 1
    /\ raw' = NoTable
    /\ df' = NoTable
    /\ filename' = ""
    /\ import_status' = <<>>
    /\ buttons' = NoButtons
    /\ exc' = ""
    /\ UNCHANGED <<disk, row>>

\* Lines 100-127 on row row.i of a log that has none of Date, Time and
\* DateTime: the generated Time and Date, their DateTime and the ElapsedTime
\* (the offset from row 0 of the same log); t is what datetime.now() reads
SynthRow(t) ==
    /\ ~row.done
    /\ LET date == FormatDate(t)
           dt(i) == ToDatetime(date \o <<" ">> \o FormatSynthTime(i))
       IN row' = [i |-> row.i, done |-> TRUE,
                  Time |-> Str(FormatSynthTime(row.i)),
                  Date |-> Str(date),
                  DateTime |-> dt(row.i),
                  ElapsedTime |-> ElapsedCell(dt(row.i), dt(0))]
    /\ UNCHANGED <<disk, pc, raw, df, filename, import_status, buttons, exc, runs>>

Next ==
    \/ \E fn \in DOMAIN disk \cup {""} : \E t \in Clock : main(fn, t)
    \/ \E save \in {"", ProcessedFile} : export_processed_log_file(save)
    \/ Exit
    \/ Launch

\* One run of the program, from its start to its exit
NextRun ==
    \/ \E fn \in DOMAIN disk \cup {""} : \E t \in Clock : main(fn, t)
    \/ \E save \in {"", ProcessedFile} : export_processed_log_file(save)
    \/ Exit

\* The state of a first start with the log file `file` on disk
InitWith(file) ==
    /\ disk = [f \in {LogFile} |-> file]
    /\ pc = "start"
    /\ raw = NoTable
    /\ df = NoTable
    /\ filename = ""
    /\ import_status = <<>>
    /\ buttons = NoButtons
    /\ exc = ""
    /\ runs = 1
    /\ row = NoRow

\* ------------------------------------------------------------- log files
\* A column present (one choice per assignment of fields to rows) or absent
OptCol(name, n, fields) == {<<>>} \cup {<< <<name, c>> >> : c \in [1..n -> fields]}

\* The table of the listed <<name, fields>> pairs
FromPairs(pairs, n) ==
    [cols |-> [i \in 1..Len(pairs) |-> pairs[i][1]],
     data |-> [c \in {pairs[i][1] : i \in 1..Len(pairs)} |->
                 pairs[CHOOSE i \in 1..Len(pairs) : pairs[i][1] = c][2]],
     n |-> n]

\* A telemetry column that the pipeline only carries along
RssiCol(n) == << <<"RSSI(dB)", [i \in 1..n |-> Str(<<"8", Digits[i + 1]>>)]>> >>

\* A Time in the HH:MM:SS.f format, and one that lost its leading "12:"
tMatch == Str(<<"1", "2", ":", "0", "0", ":", "0", "1", ".", "5">>)

tShort == Str(<<"0", "0", ":", "0", "2", ".", "5">>)

TimeFields ==
    { tMatch, tShort,
      Str(<<"1", "2", ":", "0", "0", ":", "0", "4", ".", "2", "5">>),
      Str(<<"2", "5", ":", "0", "0", ":", "0", "0", ".", "0">>) }

DateFields ==
    { Str(<<"2", "0", "2", "4", "-", "0", "2", "-", "2", "8">>),
      Str(<<"2", "0", "2", "4", "-", "0", "3", "-", "0", "1">>),
      Str(<<"2", "0", "2", "4", "-", "0", "2", "-", "3", "0">>) }

\* Logs as the radio writes them, with or without Time and Date
RadioLogs ==
    UNION {{FromPairs(t \o d \o RssiCol(n), n) :
               t \in OptCol("Time", n, TimeFields),
               d \in OptCol("Date", n, DateFields)} : n \in 1..MaxRows}

\* Logs with gaps in the Time column
GappyLogs ==
    UNION {{FromPairs(t \o RssiCol(n), n) :
               t \in OptCol("Time", n, {tMatch, tShort, NaN})} : n \in 1..MaxRows}

dtOne == Str(<<"2", "0", "2", "4", "-", "0", "3", "-", "0", "1", " ", "1", "2", ":", "0", "0", ":", "0", "1", ".", "5", "0", "0">>)

dtTwo == Str(<<"2", "0", "2", "4", "-", "0", "3", "-", "0", "1", " ", "1", "2", ":", "0", "0", ":", "0", "4", ".", "2", "5", "0">>)

\* The i-th of the ElapsedTime fields 0.0, 1.0, 2.0, ...
SecondsField(i) == Str(NatText(i - 1) \o <<".", "0">>)

\* Logs that already have a DateTime column (exports of this program and
\* foreign files), with or without ElapsedTime, Time and Date
ProcessedLogs ==
    UNION {{FromPairs(<< <<"DateTime", dts>> >> \o e \o t \o d \o RssiCol(n), n) :
               dts \in [1..n -> {dtOne, dtTwo, NaN}],
               e \in {<<>>,
                      << <<"ElapsedTime", [i \in 1..n |-> SecondsField(i)]>> >>,
                      << <<"ElapsedTime", [i \in 1..n |-> SecondsField(8)]>> >>},
               t \in {<<>>,
                      << <<"Time", [i \in 1..n |-> tShort]>> >>,
                      << <<"Time", [i \in 1..n |-> tMatch]>> >>},
               d \in {<<>>,
                      << <<"Date", [i \in 1..n |-> Str(<<"2", "0", "2", "4", "-", "0", "3", "-", "0", "1">>)]>> >>}}
           : n \in 1..MaxRows}

InitTime == \E file \in RadioLogs \cup GappyLogs \cup ProcessedLogs : InitWith(file)

\* The time reconstruction over one run of the program on each log
SpecTime == InitTime /\ [][NextRun]_vars

\* Logs with a combined GPS column, or with separate latitude and longitude
\* columns, and a well-formed Date and Time
gpsA == Str(<<"4", "0", ".", "0", " ", "-", "7", "3", ".", "0">>)

gpsB == Str(<<"4", "0", ".", "0", "0", "2", " ", "-", "7", "3", ".", "0", "0", "4">>)

gpsLatOnly == Str(<<"4", "0", ".", "0", "0", "1">>)

GoodTime(n) ==
    << <<"Date", [i \in 1..n |-> Str(<<"2", "0", "2", "4", "-", "0", "3", "-", "0", "1">>)]>>,
       <<"Time", [i \in 1..n |-> Str(FormatSynthTime(i))]>> >>

CombinedGpsLogs ==
    UNION {{FromPairs(g \o GoodTime(n) \o RssiCol(n), n) :
               g \in OptCol("GPS", n, {gpsA, gpsB, gpsLatOnly, NaN})}
           : n \in 1..MaxRows}

LatFields == {Str(<<"4", "0", ".", "0">>), Str(<<"4", "0", ".", "0", "0", "2">>), NaN}

LonFields == {Str(<<"-", "7", "3", ".", "0">>), Str(<<"-", "7", "3", ".", "0", "0", "4">>), NaN}

SeparateGpsLogs ==
    UNION {{FromPairs(la \o lo \o xy \o GoodTime(n) \o RssiCol(n), n) :
               la \in OptCol("GPS.Latitude", n, LatFields),
               lo \in OptCol("GPS.Longitude", n, LonFields),
               xy \in {<<>>, << <<"GPS.X(m)", [i \in 1..n |-> SecondsField(i)]>> >>}}
           : n \in 1..MaxRows}

\* A track whose last point is the mean of the other two, in both orders
gpsMid == Str(<<"4", "0", ".", "0", "0", "1", " ", "-", "7", "3", ".", "0", "0", "2">>)

TrackPoints == {<<gpsA, gpsB, gpsMid>>, <<gpsMid, gpsB, gpsA>>}

CentredGpsLogs ==
    {FromPairs(<< <<"GPS", p>> >> \o GoodTime(Len(p)) \o RssiCol(Len(p)), Len(p)) :
        p \in TrackPoints}

\* A position whose longitude is not a number
gpsBad == Str(<<"4", "0", ".", "0", " ", "?">>)

BadGpsLogs ==
    UNION {{FromPairs(<< <<"GPS", g>> >> \o GoodTime(n) \o RssiCol(n), n) :
               g \in [1..n -> {gpsA, gpsBad}]} : n \in 1..MaxRows}

\* A track with a row that has no position between two that have one
GappyTrack == <<gpsA, NaN, gpsB>>

GappyTrackLogs ==
    {FromPairs(<< <<"GPS", GappyTrack>> >> \o GoodTime(Len(GappyTrack))
                   \o RssiCol(Len(GappyTrack)), Len(GappyTrack))}

\* The position gpsA written with a space in front, a space behind, and
\* two spaces between latitude and longitude
gpsLead == Str(<<" ">> \o gpsA.s)

gpsTrail == Str(gpsA.s \o <<" ">>)

gpsDouble == Str(<<"4", "0", ".", "0", " ", " ", "-", "7", "3", ".", "0">>)

SpacedGpsLogs ==
    UNION {{FromPairs(<< <<"GPS", g>> >> \o GoodTime(n) \o RssiCol(n), n) :
               g \in [1..n -> {gpsA, gpsB, gpsLead, gpsTrail, gpsDouble}]}
           : n \in 1..MaxRows}

InitSpaced == \E file \in SpacedGpsLogs : InitWith(file)

\* The GPS stage over one run of the program on each log with spaces
SpecSpaced == InitSpaced /\ [][NextRun]_vars

InitGps ==
    \E file \in CombinedGpsLogs \cup SeparateGpsLogs \cup CentredGpsLogs
                   \cup BadGpsLogs \cup GappyTrackLogs : InitWith(file)

\* The GPS stage over one run of the program on each log
SpecGps == InitGps /\ [][NextRun]_vars

\* Logs with battery telemetry: pack voltage and current, and a Power (W)
\* column that some have already
PowerLogs ==
    UNION {{FromPairs(v \o a \o w \o GoodTime(n) \o RssiCol(n), n) :
               v \in OptCol("VFAS(V)", n, {Str(<<"1", "2", ".", "0">>),
                                            Str(<<"1", "1", ".", "5">>), NaN}),
               a \in OptCol("Current(A)", n, {Str(<<"2", ".", "5">>), NaN}),
               w \in {<<>>, << <<"Power (W)", [i \in 1..n |-> SecondsField(i)]>> >>}}
           : n \in 1..MaxRows}

\* Logs with cell voltages, and a column whose name starts like a cell's
LipoLogs ==
    UNION {{FromPairs(c1 \o c2 \o x \o GoodTime(n) \o RssiCol(n), n) :
               c1 \in OptCol("LiPo1(V)", n, {Str(<<"3", ".", "7">>), NaN}),
               c2 \in OptCol("LiPo2(V)", n, {Str(<<"3", ".", "8">>), NaN}),
               x \in {<<>>, << <<"LiPo2(V)raw", [i \in 1..n |-> Str(<<"4", ".", "1">>)]>> >>}}
           : n \in 1..MaxRows}

InitDerived == \E file \in PowerLogs \cup LipoLogs : InitWith(file)

\* The derived columns over one run of the program on each log
SpecDerived == InitDerived /\ [][NextRun]_vars

\* Logs by which columns they have and how each is filled: on every row, on
\* no row, or on the last row only; a header without rows included
Filled(n, cell) == [i \in 1..n |-> cell]

LastOnly(n, cell) == [i \in 1..n |-> IF i = n THEN cell ELSE NaN]

Shapes(name, shapes) == {<<>>} \cup {<< <<name, sh>> >> : sh \in shapes}

dateOne == Str(<<"2", "0", "2", "4", "-", "0", "3", "-", "0", "1">>)

volts == Str(<<"1", "2", ".", "0">>)

ColumnLogs ==
    UNION {{FromPairs(b[1] \o acc \o t \o g \o alt \o b[2] \o dt \o d \o b[3], n) :
               b \in {<< <<>>, <<>>, <<>> >>,
                       << << <<"VFAS(V)", Filled(n, volts)>> >>,
                          << <<"LiPo1(V)", Filled(n, Str(<<"3", ".", "7">>))>> >>,
                          << <<"Current(A)", Filled(n, Str(<<"2", ".", "5">>))>> >> >>},
               acc \in Shapes("accX(g)", {Filled(n, Str(<<"0", ".", "5">>)), Filled(n, NaN)}),
               t \in Shapes("Time", {Filled(n, tMatch), LastOnly(n, tShort)}),
               g \in Shapes("GPS", {Filled(n, gpsA)}),
               alt \in Shapes("Alt(m)", {LastOnly(n, volts), Filled(n, NaN)}),
               dt \in Shapes("DateTime", {Filled(n, dtOne)}),
               d \in Shapes("Date", {Filled(n, dateOne)})}
           : n \in 0..MaxRows}

InitColumns == \E file \in ColumnLogs : InitWith(file)

\* The columns of the table over one run of the program on each log
SpecColumns == InitColumns /\ [][NextRun]_vars

\* Logs whose Time lost its hour, or is no time at all, with or without a
\* Date (one of them no date of the calendar) and battery telemetry
tJunk == Str(<<"x">>)

ReimportLogs ==
    UNION {{FromPairs(t \o d \o b \o RssiCol(n), n) :
               t \in OptCol("Time", n, {tShort, tJunk}),
               d \in {<<>>, << <<"Date", Filled(n, dateOne)>> >>,
                      << <<"Date", Filled(n, Str(<<"2", "0", "2", "4", "-", "0", "2", "-", "3", "0">>))>> >>},
               b \in {<<>>, << <<"VFAS(V)", Filled(n, volts)>>,
                               <<"Current(A)", LastOnly(n, Str(<<"2", ".", "5">>))>>,
                               <<"LiPo1(V)", Filled(n, Str(<<"3", ".", "7">>))>> >>}}
           : n \in 1..MaxRows}

InitReimport == \E file \in ReimportLogs : InitWith(file)

\* Starts, exports and restarts of the program on a log and on its exports
SpecReimport == InitReimport /\ [][Next]_vars

\* Logs in which a column the pipeline tests for is absent, in the header
\* but empty on every row, or filled
Battery(n, v, a, c) ==
    << <<"VFAS(V)", Filled(n, v)>>, <<"Current(A)", Filled(n, a)>>,
       <<"LiPo1(V)", Filled(n, c)>> >>

amps == Str(<<"2", ".", "5">>)

EmptyColumnLogs ==
    UNION {{FromPairs(g \o t \o d \o dt \o b \o RssiCol(n), n) :
               g \in Shapes("GPS", {Filled(n, NaN)}),
               t \in Shapes("Time", {Filled(n, NaN), Filled(n, tShort)}),
               d \in Shapes("Date", {Filled(n, NaN), Filled(n, dateOne)}),
               dt \in Shapes("DateTime", {Filled(n, NaN), Filled(n, dtOne)}),
               b \in {<<>>, Battery(n, volts, amps, volts), Battery(n, NaN, amps, volts),
                      Battery(n, volts, NaN, volts), Battery(n, volts, amps, NaN)}}
           : n \in 1..MaxRows}

InitEmpty == \E file \in EmptyColumnLogs : InitWith(file)

\* Empty columns over one run of the program on each log
SpecEmpty == InitEmpty /\ [][NextRun]_vars

\* The rows looked at in a long log without Date, Time and DateTime: the
\* first ones and those around the row that is twelve hours after row 0
HalfDay == 12 * 3600

RowIndexes == 0..MaxProbe \cup (HalfDay - MaxProbe)..(HalfDay + MaxProbe)

InitSynth ==
    /\ disk = <<>>
    /\ pc = "start"
    /\ raw = NoTable
    /\ df = NoTable
    /\ filename = ""
    /\ import_status = <<>>
    /\ buttons = NoButtons
    /\ exc = ""
    /\ runs = 1
    /\ row \in {[NoRow EXCEPT !.i = k, !.done = FALSE] : k \in RowIndexes}

NextSynth == \E t \in Clock : SynthRow(t)

\* The generated time axis, row by row
SpecSynth == InitSynth /\ [][NextSynth]_vars

\* Every start, export and restart of the program on the radio's logs
Init == \E file \in RadioLogs : InitWith(file)

Spec == Init /\ [][Next]_vars

\* ------------------------------------------------------------ properties
\* main has called load_log_file with a file selected
Loading == pc \in {"window", "exited", "crashed"} /\ exc # "FileNotFoundError"

\* load_log_file returned df and import_status to main
Returned == pc \in {"window", "exited"}

\* The run after line 54 (empty columns removed)
AfterLoad == [df |-> DropEmptyColumns(raw), status |-> <<>>, exc |-> ""]

\* The table after the optional GPS split, where the gate of line 64 is
\* evaluated
AtGate == GpsSplit(AfterLoad)

\* The run at line 85, where the time reconstruction starts
BeforeTime == GpsProject(AtGate)

\* The run at line 117, where Date and Time are combined (the Date value
\* read from the clock does not matter for what is tested on it)
AtCombine == FixDate(FixTime(BeforeTime), CHOOSE t \in Clock : TRUE)

\* The time reconstruction ran in the run that returned
Reconstructed == Returned /\ ~HasCol(BeforeTime.df, "DateTime")

SameColumn(a, b, c) ==
    /\ HasCol(a, c) <=> HasCol(b, c)
    /\ HasCol(a, c) => a.data[c] = b.data[c]

TimeColumns == {"Date", "Time", "DateTime", "ElapsedTime"}

NoTimeNote == "No time data found."

NoDateNote == "No date data found."

NoGpsNote == "No GPS data found."

HasGpsNote == "Contains GPS data."

\* b - a in milliseconds, for two timestamps
MsBetween(a, b) == (b.d - a.d) * 86400000 + (b.n - a.n)

\* C1: when the table has a DateTime column at the time reconstruction, the
\* returned Date, Time, DateTime and ElapsedTime columns are those the table
\* had there (none added, removed or changed) and the status has no time
\* note and no date note.
C1_DateTimePassThrough ==
    (Returned /\ HasCol(BeforeTime.df, "DateTime")) =>
        /\ \A c \in TimeColumns : SameColumn(BeforeTime.df, df, c)
        /\ ~Contains(import_status, NoTimeNote)
        /\ ~Contains(import_status, NoDateNote)

\* A returned table with DateTime whose Time fails the pattern and that has
\* neither Date nor ElapsedTime
C1_Witness ==
    /\ Returned
    /\ HasCol(BeforeTime.df, "DateTime")
    /\ HasCol(df, "Time") /\ NeedsPrefix(df.data["Time"])
    /\ ~HasCol(df, "Date") /\ ~HasCol(df, "ElapsedTime")

\* The timestamp a DateTime cell stands for (a passed-through DateTime is text)
DateTimeValue(c) == IF c.k = "str" THEN ToDatetime(c.s) ELSE c

\* C2: in every returned table that has a DateTime column there is an
\* ElapsedTime column, holding on each row the offset in seconds from the
\* first row's DateTime, or missing on every row when no DateTime parsed.
C2_ElapsedTimeFollowsDateTime ==
    (Returned /\ HasCol(df, "DateTime")) =>
        /\ HasCol(df, "ElapsedTime")
        /\ LET dts == [i \in 1..df.n |-> DateTimeValue(df.data["DateTime"][i])]
               el == df.data["ElapsedTime"]
           IN IF AllNull(dts) THEN AllNull(el)
              ELSE \A i \in 1..df.n :
                     IF IsNull(dts[i]) \/ IsNull(dts[1]) THEN IsNull(el[i])
                     ELSE el[i] = Num(MsBetween(dts[1], dts[i]))

\* C3: when DateTime is absent and Time is present, every row's Time is
\* "12:" followed by its old value if the first row's Time fails the
\* pattern, and every row's Time is unchanged if the first row's matches.
C3_PrefixDecidedByFirstRow ==
    (Reconstructed /\ HasCol(BeforeTime.df, "Time")) =>
        LET old == BeforeTime.df.data["Time"]
            new == df.data["Time"]
        IN IF TimePatternMatches(old[1].s) THEN new = old
           ELSE \A i \in 1..df.n :
                  new[i] = Str(<<"1", "2", ":">> \o AsStr(old[i]))

\* The first row fails the pattern and a later row matches it, and the
\* later row was prefixed too
C3_Witness ==
    /\ Reconstructed /\ HasCol(BeforeTime.df, "Time")
    /\ ~TimePatternMatches(BeforeTime.df.data["Time"][1].s)
    /\ \E i \in 2..df.n :
          /\ TimePatternMatches(BeforeTime.df.data["Time"][i].s)
          /\ df.data["Time"][i] # BeforeTime.df.data["Time"][i]

\* C4: when DateTime is reconstructed and its first row parsed, ElapsedTime
\* is 0 on the first row and DateTime[i] - DateTime[0] in seconds on every
\* row i, missing exactly on the rows whose DateTime is missing.
C4_ElapsedFromFirstRow ==
    (Reconstructed /\ df.n >= 1 /\ ~IsNull(df.data["DateTime"][1])) =>
        LET dts == df.data["DateTime"]
            el == df.data["ElapsedTime"]
        IN /\ el[1] = Num(0)
           /\ \A i \in 1..df.n :
                 IF IsNull(dts[i]) THEN IsNull(el[i])
                 ELSE el[i] = Num(MsBetween(dts[1], dts[i]))

\* A reconstructed table with a row on an earlier day than the first row's
C4_Witness ==
    /\ Reconstructed /\ df.n >= 2 /\ ~IsNull(df.data["DateTime"][1])
    /\ \E i \in 1..df.n :
          /\ ~IsNull(df.data["DateTime"][i])
          /\ df.data["DateTime"][i].d < df.data["DateTime"][1].d
          /\ df.data["ElapsedTime"][i].n < 0

\* Whether the "<Date> <Time>" text of row i of the table parses
RowParses(t, i) ==
    ~IsNull(ToDatetime(AsStr(t.data["Date"][i]) \o <<" ">> \o AsStr(t.data["Time"][i])))

\* C5: in a reconstructed table every row whose "<Date> <Time>" text
\* parses has a DateTime and an ElapsedTime, whatever the other rows
\* (the first included) hold.
C5_UnparsableRowIsLocal ==
    Reconstructed =>
        \A i \in 1..df.n :
            RowParses(df, i) =>
                /\ ~IsNull(df.data["DateTime"][i])
                /\ ~IsNull(df.data["ElapsedTime"][i])

\* C6: when DateTime is absent and no row's "<Date> <Time>" text parses,
\* load_log_file returns, and DateTime and ElapsedTime are columns of the
\* returned table that are missing on every row.
C6_AllUnparsable ==
    ( /\ Loading
      /\ ~HasCol(BeforeTime.df, "DateTime")
      /\ AtCombine.exc = ""
      /\ \A i \in 1..AtCombine.df.n : ~RowParses(AtCombine.df, i) ) =>
        /\ Returned
        /\ HasCol(df, "DateTime") /\ AllNull(df.data["DateTime"])
        /\ HasCol(df, "ElapsedTime") /\ AllNull(df.data["ElapsedTime"])

\* A returned table of two rows or more whose Time was prefixed and whose
\* DateTime is missing on every row
C6_Witness ==
    /\ Reconstructed /\ df.n >= 2
    /\ HasCol(BeforeTime.df, "Time") /\ NeedsPrefix(BeforeTime.df.data["Time"])
    /\ AllNull(df.data["DateTime"])
    /\ AllNull(df.data["ElapsedTime"])

\* C7: in a log with none of DateTime, Date and Time, row i gets the Time
\* 12:00:00.000 plus i seconds and the ElapsedTime i seconds.
C7_SynthesizedTimeAxis ==
    row.done =>
        /\ row.Time = Str(FormatSynthTime(row.i))
        /\ row.ElapsedTime = Num(1000 * row.i)

\* C8: when DateTime is absent, an absent Date becomes one date of the clock
\* on every row with the note "No date data found.", whatever happened to
\* Time; a present Date is unchanged and there is no date note.
C8_DateSynthesis ==
    (Loading /\ ~HasCol(BeforeTime.df, "DateTime") /\ FixTime(BeforeTime).exc = "") =>
        /\ Returned
        /\ IF HasCol(BeforeTime.df, "Date")
           THEN /\ df.data["Date"] = BeforeTime.df.data["Date"]
                /\ ~Contains(import_status, NoDateNote)
           ELSE /\ \E t \in Clock :
                      \A i \in 1..df.n : df.data["Date"][i] = Str(FormatDate(t))
                /\ HasCol(df, "Date")
                /\ Contains(import_status, NoDateNote)

\* A table of two rows or more whose Date was generated and whose Time was
\* prefixed
C8_Witness ==
    /\ Reconstructed /\ df.n >= 2
    /\ ~HasCol(BeforeTime.df, "Date")
    /\ HasCol(BeforeTime.df, "Time") /\ NeedsPrefix(BeforeTime.df.data["Time"])
    /\ Contains(import_status, NoDateNote)

\* A GPS column whose fields are two numbers separated by one space
WellFormedGps(t) ==
    /\ HasCol(t, "GPS")
    /\ \A i \in 1..t.n :
          \/ IsNull(t.data["GPS"][i])
          \/ /\ t.data["GPS"][i].k = "str"
             /\ Len(SplitSpace(t.data["GPS"][i].s)) = 2
             /\ IsFloatText(SplitSpace(t.data["GPS"][i].s)[1])
             /\ IsFloatText(SplitSpace(t.data["GPS"][i].s)[2])

\* The number a coordinate cell of the returned table stands for
Coordinate(c) == IF c.k = "str" THEN Num(ParseFloat(c.s)) ELSE c

\* C9: a log with a combined GPS column of "lat lon" text is returned
\* without the GPS column, with GPS.Latitude the first and GPS.Longitude the
\* second token of each row, and with GPS.X(m) and GPS.Y(m) projected from
\* them about their means on every row that has a position.
C9_GpsSplit ==
    (Loading /\ WellFormedGps(AfterLoad.df)) =>
        /\ Returned
        /\ ~HasCol(df, "GPS")
        /\ HasCol(df, "GPS.Latitude") /\ HasCol(df, "GPS.Longitude")
        /\ HasCol(df, "GPS.X(m)") /\ HasCol(df, "GPS.Y(m)")
        /\ LET gps == AfterLoad.df.data["GPS"]
               lon == [i \in 1..df.n |-> Coordinate(df.data["GPS.Longitude"][i])]
               lat == [i \in 1..df.n |-> Coordinate(df.data["GPS.Latitude"][i])]
           IN \A i \in 1..df.n :
                 /\ IF IsNull(gps[i])
                    THEN /\ IsNull(df.data["GPS.Latitude"][i])
                         /\ IsNull(df.data["GPS.Longitude"][i])
                    ELSE /\ df.data["GPS.Latitude"][i] = Str(SplitSpace(gps[i].s)[1])
                         /\ df.data["GPS.Longitude"][i] = Str(SplitSpace(gps[i].s)[2])
                 /\ ~IsNull(gps[i]) =>
                       /\ df.data["GPS.X(m)"][i] =
                             ProjX(lon[i], lat[i], SumCells(lon), CountCells(lon))
                       /\ df.data["GPS.Y(m)"][i] =
                             ProjY(lon[i], lat[i], SumCells(lat), CountCells(lat))
                       /\ df.data["GPS.X(m)"][i].k = "num"
                       /\ df.data["GPS.Y(m)"][i].k = "num"

\* A returned table split from two different positions
C9_Witness ==
    /\ Returned /\ WellFormedGps(AfterLoad.df) /\ df.n >= 2
    /\ \E i \in 1..df.n :
          df.data["GPS.X(m)"][i].k = "num" /\ df.data["GPS.X(m)"][i].n # 0

GpsColumns ==
    {"GPS.Latitude", "GPS.Longitude", "GPS.X(m)", "GPS.Y(m)",
     "GPS.LatitudeFloat", "GPS.LongitudeFloat"}

\* The columns the stages after the GPS stage write
LaterColumns == TimeColumns \cup {"Power (W)", "LiPo Total (V)"}

NotesOf(status, lines) == {i \in 1..Len(status) : status[i] \in lines}

\* C10: when GPS.Latitude and GPS.Longitude are not both columns after the
\* split, every column the table has there (and that no later stage
\* writes) is returned unchanged, no GPS column is added and the status has
\* "No GPS data found."; when both are
\* columns the status has "Contains GPS data."; the status has exactly one
\* of the two notes, once.
C10_GpsGate ==
    Returned =>
        /\ IF HasGps(AtGate.df)
           THEN Contains(import_status, HasGpsNote)
           ELSE /\ Contains(import_status, NoGpsNote)
                /\ \A c \in Range(AtGate.df.cols) \ LaterColumns :
                       SameColumn(AtGate.df, df, c)
                /\ \A c \in GpsColumns : HasCol(df, c) => HasCol(AtGate.df, c)
        /\ Cardinality(NotesOf(import_status, {NoGpsNote, HasGpsNote})) = 1

\* A returned table with a latitude column and no longitude column
C10_Witness ==
    /\ Returned
    /\ HasCol(df, "GPS.Latitude") /\ ~HasCol(df, "GPS.Longitude")
    /\ Contains(import_status, NoGpsNote)

\* The float columns of the projection, from the table at the gate
FloatColumn(t, c) == [i \in 1..t.n |-> Coordinate(t.data[c][i])]

\* Whether the number of row i is the mean of the column
IsMean(cells, i) ==
    cells[i].k = "num" /\ cells[i].n * CountCells(cells) = SumCells(cells)

\* C11: in a returned table that was projected, every row whose latitude and
\* longitude are the means of their columns has GPS.X(m) = 0 and
\* GPS.Y(m) = 0, and a table of one row has (0, 0) on that row.
C11_CentroidIsOrigin ==
    (Returned /\ HasGps(AtGate.df)) =>
        LET lon == FloatColumn(AtGate.df, "GPS.Longitude")
            lat == FloatColumn(AtGate.df, "GPS.Latitude")
        IN /\ \A i \in 1..df.n :
                 (IsMean(lon, i) /\ IsMean(lat, i)) =>
                     /\ df.data["GPS.X(m)"][i] = Num(0)
                     /\ df.data["GPS.Y(m)"][i] = Num(0)
           /\ df.n = 1 =>
                 /\ df.data["GPS.X(m)"][1] = Num(0)
                 /\ df.data["GPS.Y(m)"][1] = Num(0)

\* A returned track of three points: one at the centre with (0, 0), another
\* away from it
C11_Witness ==
    /\ Returned /\ HasGps(AtGate.df) /\ df.n >= 3
    /\ \E i, j \in 1..df.n :
          /\ IsMean(FloatColumn(AtGate.df, "GPS.Longitude"), i)
          /\ IsMean(FloatColumn(AtGate.df, "GPS.Latitude"), i)
          /\ df.data["GPS.X(m)"][i] = Num(0)
          /\ df.data["GPS.X(m)"][j].k = "num" /\ df.data["GPS.X(m)"][j].n # 0

\* Whether both coordinates of row i of the table are numbers
RowHasPosition(t, i) ==
    /\ ~IsNull(t.data["GPS.Longitude"][i]) /\ CanFloat(t.data["GPS.Longitude"][i])
    /\ ~IsNull(t.data["GPS.Latitude"][i]) /\ CanFloat(t.data["GPS.Latitude"][i])

\* C12: when the table at the gate has both coordinate columns, the load
\* returns whatever the cells hold; a row whose two coordinates are numbers
\* has GPS.X(m) and GPS.Y(m), and the time and derived columns are there.
C12_UnparsableCoordinateIsLocal ==
    (Loading /\ AtGate.exc = "" /\ HasGps(AtGate.df)) =>
        /\ Returned
        /\ HasCol(df, "DateTime") /\ HasCol(df, "ElapsedTime")
        /\ \A i \in 1..df.n :
              RowHasPosition(AtGate.df, i) =>
                  /\ ~IsNull(df.data["GPS.X(m)"][i])
                  /\ ~IsNull(df.data["GPS.Y(m)"][i])

PowerNote == "Generated 'Power (W)' data."

LipoNote == "Generated 'LiPo Total (V)' data."

\* C13: Power (W) is produced exactly when VFAS(V) and Current(A) are both
\* columns after the empty-column removal; it is then their product on each
\* row, missing exactly where one of them is missing, and the status has
\* the Power note (once) exactly when it is produced.
C13_PowerColumn ==
    Returned =>
        LET t == AfterLoad.df
            both == HasCol(t, "VFAS(V)") /\ HasCol(t, "Current(A)")
        IN /\ both <=> Contains(import_status, PowerNote)
           /\ Cardinality(NotesOf(import_status, {PowerNote})) <= 1
           /\ IF both
              THEN /\ HasCol(df, "Power (W)")
                   /\ \A i \in 1..df.n :
                         LET v == t.data["VFAS(V)"][i]
                             a == t.data["Current(A)"][i]
                             w == df.data["Power (W)"][i]
                         IN IF IsNull(v) \/ IsNull(a) THEN IsNull(w)
                            ELSE w = Num((v.n * a.n) \div 1000)
              ELSE SameColumn(t, df, "Power (W)")

\* A returned table with a row whose Power is missing because one operand
\* is, and a row whose Power is a product
C13_Witness ==
    /\ Returned /\ df.n >= 2
    /\ HasCol(df, "VFAS(V)") /\ HasCol(df, "Current(A)")
    /\ Contains(import_status, PowerNote)
    /\ \E i, j \in 1..df.n :
          /\ IsNull(df.data["Current(A)"][i]) /\ ~IsNull(df.data["VFAS(V)"][i])
          /\ IsNull(df.data["Power (W)"][i])
          /\ df.data["Power (W)"][j].k = "num" /\ df.data["Power (W)"][j].n > 0

\* A name that is LiPo, one or more digits and (V), and nothing more
IsLipoName(name) ==
    LET s == Chars(name)
    IN /\ Len(s) >= 8
       /\ SubSeq(s, 1, 4) = <<"L", "i", "P", "o">>
       /\ AllDigits(SubSeq(s, 5, Len(s) - 3))
       /\ SubSeq(s, Len(s) - 2, Len(s)) = <<"(", "V", ")">>

\* C14: LiPo Total (V) is produced exactly when some column is named LiPo,
\* digits, (V); it is then on each row the sum of the cells of exactly those
\* columns, a missing cell counting as zero.
C14_LipoTotal ==
    Returned =>
        LET t == AfterLoad.df
            names == SelectSeq(t.cols, IsLipoName)
        IN /\ (names # <<>>) <=> Contains(import_status, LipoNote)
           /\ (names # <<>>) <=> HasCol(df, "LiPo Total (V)")
           /\ names # <<>> =>
                 \A i \in 1..df.n :
                     df.data["LiPo Total (V)"][i] =
                         Num(SumCells([j \in 1..Len(names) |-> t.data[names[j]][i]]))

\* C15: the column names of every returned table are in strictly
\* increasing ordinal order.
C15_ColumnsSorted ==
    Returned =>
        \A i \in 1..(Len(df.cols) - 1) :
            TextLess(Chars(df.cols[i]), Chars(df.cols[i + 1]))

\* A returned table with input, generated and derived columns, among them
\* a lower-case name after the upper-case ones, from a file that had them
\* in another order
C15_Witness ==
    /\ Returned
    /\ {"accX(g)", "VFAS(V)", "Date", "Time", "DateTime", "ElapsedTime",
        "Power (W)", "LiPo Total (V)", "GPS.X(m)"} \subseteq Range(df.cols)
    /\ ~HasCol(raw, "Date") /\ ~HasCol(raw, "Time")
    /\ df.cols[Len(df.cols)] = "accX(g)"
    /\ raw.cols[1] = "VFAS(V)"

\* The columns some stage after the loader writes or removes
WrittenColumns == LaterColumns \cup GpsColumns \cup {"GPS"}

HasValue(cells) == \E i \in 1..Len(cells) : ~IsNull(cells[i])

\* C16: after the loader the table has exactly the columns of the file
\* that have a value on some row, with the cells and the row count of the
\* file; in the returned table the row count is still that of the file, and
\* a column no later stage writes is there exactly when it has a value.
C16_EmptyColumnsRemoved ==
    Loading =>
        /\ AfterLoad.df.n = raw.n
        /\ \A c \in Range(raw.cols) :
              HasCol(AfterLoad.df, c) <=> HasValue(raw.data[c])
        /\ \A c \in Range(AfterLoad.df.cols) : AfterLoad.df.data[c] = raw.data[c]
        /\ Returned =>
              /\ df.n = raw.n
              /\ \A c \in Range(raw.cols) \ WrittenColumns :
                    /\ HasCol(df, c) <=> HasValue(raw.data[c])
                    /\ HasCol(df, c) => df.data[c] = raw.data[c]

\* A returned table of two rows or more from a file with a column empty on
\* every row (removed) and a column with a value on one row only (kept)
C16_Witness ==
    /\ Returned /\ raw.n >= 2
    /\ \E c \in Range(raw.cols) \ WrittenColumns :
          ~HasValue(raw.data[c]) /\ ~HasCol(df, c)
    /\ \E c \in Range(raw.cols) \ WrittenColumns :
          /\ HasValue(raw.data[c]) /\ IsNull(raw.data[c][1])
          /\ HasCol(df, c)

\* C17: a start in which no file is selected ends with FileNotFoundError:
\* nothing is read, main keeps no table, no file name, no status and no
\* button, the files are untouched, and the run takes no further step.
C17_NoFileSelected ==
    /\ [][\A t \in Clock :
             main("", t) =>
                 /\ exc' = "FileNotFoundError" /\ pc' = "crashed"
                 /\ raw' = NoTable /\ df' = NoTable
                 /\ filename' = "" /\ import_status' = <<>>
                 /\ buttons' = NoButtons /\ disk' = disk]_vars
    /\ [][exc # "FileNotFoundError"]_vars

\* The first start ended without a file selected
C17_Witness ==
    /\ pc = "crashed" /\ exc = "FileNotFoundError" /\ runs = 1
    /\ df = NoTable /\ import_status = <<>>

\* C18: every start in which a file was selected and read ends with
\* load_log_file returning a table and a status to main.
C18_AlwaysReturns == Loading => Returned

\* The notes load_log_file writes into import_status
StatusNotes == {NoGpsNote, HasGpsNote, NoTimeNote, NoDateNote, PowerNote, LipoNote}

\* C20: when the first Time fails the pattern and every Time gets the "12:"
\* prefix, the returned status has a note for it (a line that is none of
\* the GPS, time, date, Power and LiPo notes).
C20_PrefixIsReported ==
    ( /\ Reconstructed
      /\ HasCol(BeforeTime.df, "Time")
      /\ NeedsPrefix(BeforeTime.df.data["Time"]) ) =>
        \E i \in 1..Len(import_status) : import_status[i] \notin StatusNotes

\* Whether two cells of column c hold the same value (a DateTime read back
\* from a file is text, a reconstructed one is a timestamp)
SameValue(c, a, b) ==
    IF c = "DateTime" THEN DateTimeValue(a) = DateTimeValue(b) ELSE a = b

\* The columns of the time axis and the derived columns
AxisColumns == TimeColumns \cup {"Power (W)", "LiPo Total (V)"}

\* C19: the table returned for an exported file has the columns of the
\* table that was exported (raw, as read back), each once, and the same
\* Date, Time, DateTime, ElapsedTime, Power (W) and LiPo Total (V) on
\* every row.
C19_ReimportIdempotent ==
    (Returned /\ filename = ProcessedFile) =>
        /\ Range(df.cols) = Range(raw.cols)
        /\ Cardinality(Range(df.cols)) = Len(df.cols)
        /\ \A c \in AxisColumns \cap Range(raw.cols) :
              /\ HasCol(df, c)
              /\ \A i \in 1..df.n : SameValue(c, raw.data[c][i], df.data[c][i])

\* C21: when the reconstructed DateTime is missing on some row, the
\* returned status has a note for it (a line that is none of the GPS, time,
\* date, Power and LiPo notes).
C21_UnparsableIsReported ==
    (Reconstructed /\ \E i \in 1..df.n : IsNull(df.data["DateTime"][i])) =>
        \E i \in 1..Len(import_status) : import_status[i] \notin StatusNotes

\* The table without its row k
DropRow(t, k) ==
    [cols |-> t.cols,
     data |-> [c \in Range(t.cols) |->
                 [i \in 1..(t.n - 1) |->
                     IF i < k THEN t.data[c][i] ELSE t.data[c][i + 1]]],
     n |-> t.n - 1]

\* Whether the returned GPS.X(m) and GPS.Y(m) of every row but k are those
\* the projection gives for the table at the gate without row k
SameWithoutRow(k) ==
    LET less == ProjectColumns(WithDf(AtGate, DropRow(AtGate.df, k))).df
    IN \A i \in 1..df.n \ {k} :
          LET j == IF i < k THEN i ELSE i - 1
          IN /\ df.data["GPS.X(m)"][i] = less.data["GPS.X(m)"][j]
             /\ df.data["GPS.Y(m)"][i] = less.data["GPS.Y(m)"][j]

\* C22 as stated: a row whose latitude or longitude is missing does not
\* change the GPS.X(m) and GPS.Y(m) of the other rows.
C22_MissingRowExcluded ==
    (Returned /\ HasGps(AtGate.df)) =>
        \A k \in 1..df.n :
            ( \/ IsNull(AtGate.df.data["GPS.Latitude"][k])
              \/ IsNull(AtGate.df.data["GPS.Longitude"][k]) ) => SameWithoutRow(k)

\* The rows on which the column has a number
Present(cells) == {i \in 1..Len(cells) : cells[i].k = "num"}

\* C22, amended: each centre coordinate is the mean of its own column over
\* the rows where that column has a value (a row that has only one of the
\* two coordinates still counts in that coordinate's mean); a row with
\* neither coordinate does not change the GPS.X(m) and GPS.Y(m) of the
\* other rows.
C22_CentreOverPresent ==
    (Returned /\ HasGps(AtGate.df)) =>
        LET lon == FloatColumn(AtGate.df, "GPS.Longitude")
            lat == FloatColumn(AtGate.df, "GPS.Latitude")
            nlon == Cardinality(Present(lon))
            nlat == Cardinality(Present(lat))
        IN /\ \A i \in Present(lon) \cap Present(lat) :
                 /\ df.data["GPS.X(m)"][i] =
                       Num(((lon[i].n * nlon - SumCells(lon)) * 111000) \div nlon)
                 /\ df.data["GPS.Y(m)"][i] =
                       Num(((lat[i].n * nlat - SumCells(lat)) * 111000) \div nlat)
           /\ \A k \in 1..df.n :
                 (IsNull(lon[k]) /\ IsNull(lat[k])) => SameWithoutRow(k)

\* A returned track of three rows: one without a position, and two with
\* positions on either side of the centre
C22_Witness ==
    /\ Returned /\ HasGps(AtGate.df) /\ df.n >= 3
    /\ \E k \in 1..df.n :
          /\ IsNull(AtGate.df.data["GPS.Latitude"][k])
          /\ IsNull(AtGate.df.data["GPS.Longitude"][k])
    /\ \E i, j \in 1..df.n :
          /\ df.data["GPS.X(m)"][i].k = "num" /\ df.data["GPS.X(m)"][i].n < 0
          /\ df.data["GPS.X(m)"][j].k = "num" /\ df.data["GPS.X(m)"][j].n > 0

\* The words of a text: what is between its spaces, however many
Words(s) == SelectSeq(SplitSpace(s), LAMBDA w : w # <<>>)

\* A GPS column whose fields are two numbers with spaces around or between
SpacedGps(t) ==
    /\ HasCol(t, "GPS")
    /\ \A i \in 1..t.n :
          /\ t.data["GPS"][i].k = "str"
          /\ Len(Words(t.data["GPS"][i].s)) = 2
          /\ IsFloatText(Words(t.data["GPS"][i].s)[1])
          /\ IsFloatText(Words(t.data["GPS"][i].s)[2])

\* C23: a log whose GPS fields are "lat lon" with a space in front, behind
\* or doubled in between is returned, with the latitude and longitude
\* numbers of the two words and GPS.X(m) and GPS.Y(m) projected from them.
C23_WhitespaceTolerated ==
    (Loading /\ SpacedGps(AfterLoad.df)) =>
        /\ Returned
        /\ LET gps == AfterLoad.df.data["GPS"]
               lat == [i \in 1..raw.n |-> Num(ParseFloat(Words(gps[i].s)[1]))]
               lon == [i \in 1..raw.n |-> Num(ParseFloat(Words(gps[i].s)[2]))]
           IN \A i \in 1..df.n :
                 /\ Coordinate(df.data["GPS.Latitude"][i]) = lat[i]
                 /\ Coordinate(df.data["GPS.Longitude"][i]) = lon[i]
                 /\ df.data["GPS.X(m)"][i] =
                       ProjX(lon[i], lat[i], SumCells(lon), Len(lon))
                 /\ df.data["GPS.Y(m)"][i] =
                       ProjY(lon[i], lat[i], SumCells(lat), Len(lat))

\* The column is in the header of the file and has no value on any row
EmptyIn(t, c) == HasCol(t, c) /\ ~HasValue(t.data[c])

\* The file without the columns that have no value on any row
Stripped(t) == SelectCols(t, SelectSeq(t.cols, LAMBDA c : HasValue(t.data[c])))

\* C24: a run on a file gives what the run on the same file without its
\* empty columns gives (same exception, table and status); in particular an
\* empty DateTime is reconstructed, an empty Time or Date is generated with
\* its note, an empty VFAS(V) or Current(A) gives no Power (W), an empty
\* GPS gives no GPS data and an empty LiPo1(V) no LiPo Total (V).
C24_EmptyIsAbsent ==
    Loading =>
        /\ \E t \in Clock :
              LET r == load_log_file(LogFile, Stripped(raw), t)
              IN /\ r.exc = exc
                 /\ Returned => (r.df = df /\ r.status = import_status)
        /\ Returned =>
              /\ EmptyIn(raw, "DateTime") =>
                    /\ HasCol(df, "DateTime") /\ HasCol(df, "ElapsedTime")
                    /\ df.data["DateTime"] = CombineDateTime(df)
              /\ (EmptyIn(raw, "Time") /\ HasCol(df, "ElapsedTime")) =>
                    /\ Contains(import_status, NoTimeNote)
                    /\ df.data["Time"] = SynthTime(df)
              /\ (EmptyIn(raw, "Date") /\ HasCol(df, "ElapsedTime")) =>
                    /\ Contains(import_status, NoDateNote)
                    /\ \E t \in Clock : df.data["Date"] = Filled(df.n, Str(FormatDate(t)))
              /\ (EmptyIn(raw, "VFAS(V)") \/ EmptyIn(raw, "Current(A)")) =>
                    /\ ~HasCol(df, "Power (W)")
                    /\ ~Contains(import_status, PowerNote)
              /\ EmptyIn(raw, "GPS") =>
                    /\ Contains(import_status, NoGpsNote)
                    /\ \A c \in GpsColumns \cup {"GPS"} : ~HasCol(df, c)
              /\ EmptyIn(raw, "LiPo1(V)") =>
                    /\ ~HasCol(df, "LiPo Total (V)")
                    /\ ~Contains(import_status, LipoNote)

\* A returned table from a file whose DateTime, Time, Date and Current(A)
\* are all in the header and empty
C24_Witness ==
    /\ Returned /\ raw.n >= 2
    /\ \A c \in {"DateTime", "Time", "Date", "Current(A)"} : EmptyIn(raw, c)
    /\ HasCol(df, "VFAS(V)") /\ ~HasCol(df, "Power (W)")
    /\ Contains(import_status, NoTimeNote) /\ Contains(import_status, NoDateNote)
    /\ ~AllNull(df.data["ElapsedTime"])

\* C25: the returned table has the rows of the file, in their order: every
\* column of the file that has a value and that no stage writes is there
\* with the cell of the file on each row, a Time or GPS.Latitude taken from
\* the file is, row by row, the one of the file (prefixed, split), and the
\* float columns of the projection are not in the table.
C25_FrameAndRows ==
    Returned =>
        /\ df.n = raw.n
        /\ \A c \in Range(df.cols) : Len(df.data[c]) = raw.n
        /\ \A c \in Range(raw.cols) \ WrittenColumns :
              HasValue(raw.data[c]) =>
                  /\ HasCol(df, c)
                  /\ \A i \in 1..raw.n : df.data[c][i] = raw.data[c][i]
        /\ (HasCol(raw, "Time") /\ HasValue(raw.data["Time"])) =>
              \A i \in 1..raw.n :
                  df.data["Time"][i] \in
                      {raw.data["Time"][i], Str(TimePrefix \o AsStr(raw.data["Time"][i]))}
        /\ (HasCol(raw, "GPS") /\ HasValue(raw.data["GPS"])) =>
              \A i \in 1..raw.n :
                  df.data["GPS.Latitude"][i] = SplitCell(raw.data["GPS"][i], 1)
        /\ HasGps(AtGate.df) =>
              /\ ~HasCol(df, "GPS.LatitudeFloat")
              /\ ~HasCol(df, "GPS.LongitudeFloat")

\* A returned table that was projected, of two rows or more, from a file
\* with a column that has a value on its last row only
C25_Witness ==
    /\ Returned /\ raw.n >= 2 /\ HasGps(AtGate.df)
    /\ HasCol(df, "GPS.X(m)") /\ HasCol(df, "accX(g)")
    /\ HasCol(raw, "Alt(m)") /\ IsNull(raw.data["Alt(m)"][1])
    /\ HasCol(df, "Alt(m)") /\ df.data["Alt(m)"] = raw.data["Alt(m)"]
    /\ ~IsNull(df.data["Alt(m)"][raw.n])

====
